---- MODULE Spec2Model ----
(***************************************************************************)
(* Model of the quizly client: the quiz session of the paginated quiz page *)
(* (src/unnamed/part_001) and of the list quiz page                        *)
(* (src/components/QuizPage.tsx), the explanation requests of the results  *)
(* page (src/unnamed/part_002), the upload page                            *)
(* (src/components/UploadPage.tsx) and the math detector normalizeMath.    *)
(*                                                                         *)
(* A JavaScript string is a sequence of one-character strings, so that     *)
(* trim, toLowerCase and split are computed and not assumed.  A value that *)
(* the code inspects with Array.isArray / typeof carries a tag t:          *)
(* "str" for a string, "arr" for an array of strings.                      *)
(***************************************************************************)
EXTENDS Integers, Sequences, FiniteSets, TLC

VARIABLES variant, questions, currentQ, selected, marked, showAnswers,
          timeElapsed, isTimerRunning, explanations, loadingId, inFlight,
          route, file, loading, result, error, uploadInFlight,
          fragment, shown, passes

quizVars == <<variant, questions, currentQ, selected, marked, showAnswers,
              timeElapsed, isTimerRunning>>
resultsVars == <<explanations, loadingId, inFlight>>
uploadVars == <<route, file, loading, result, error, uploadInFlight>>
mathVars == <<fragment, shown, passes>>
vars == <<variant, questions, currentQ, selected, marked, showAnswers,
          timeElapsed, isTimerRunning, explanations, loadingId, inFlight,
          route, file, loading, result, error, uploadInFlight,
          fragment, shown, passes>>

(***************************************************************************)
(* Bounds                                                                  *)
(***************************************************************************)
\* the timer is observed for at most MaxTime pulses
MaxTime == 3
\* at most MaxInFlight explanation requests are awaited at once
MaxInFlight == 3
\* the results page shows NumResultQuestions questions, with ids 1..N
NumResultQuestions == 3

(***************************************************************************)
(* String.prototype functions used by the scorer and the normalizer        *)
(***************************************************************************)
lowerChar(c) == IF c = "A" THEN "a" ELSE IF c = "B" THEN "b" ELSE c

toLowerCase(s) == [i \in 1..Len(s) |-> lowerChar(s[i])]

RECURSIVE trimStart(_)
trimStart(s) ==
    IF s = <<>> THEN s
    ELSE IF Head(s) = " " THEN trimStart(Tail(s)) ELSE s

RECURSIVE trimEnd(_)
trimEnd(s) ==
    IF s = <<>> THEN s
    ELSE IF s[Len(s)] = " " THEN trimEnd(SubSeq(s, 1, Len(s) - 1)) ELSE s

trim(s) == trimEnd(trimStart(s))

\* s.split(","): "" gives [""], "a," gives ["a", ""]
RECURSIVE split(_)
split(s) ==
    IF \E i \in 1..Len(s) : s[i] = ","
    THEN LET k == CHOOSE i \in 1..Len(s) :
                     /\ s[i] = ","
                     /\ \A j \in 1..(i - 1) : s[j] # ","
         IN  <<SubSeq(s, 1, k - 1)>> \o split(SubSeq(s, k + 1, Len(s)))
    ELSE <<s>>

\* arr.includes(x)
includes(arr, x) == \E i \in 1..Len(arr) : arr[i] = x

\* arr.filter(o => o !== x)
RECURSIVE filterOut(_, _)
filterOut(arr, x) ==
    IF arr = <<>> THEN <<>>
    ELSE IF Head(arr) = x THEN filterOut(Tail(arr), x)
         ELSE <<Head(arr)>> \o filterOut(Tail(arr), x)

\* a.trim().toLowerCase()
trimLower(a) == toLowerCase(trim(a))

\* arr.map((a) => a.trim())
mapTrim(arr) == [i \in 1..Len(arr) |-> trim(arr[i])]

\* arr.map((a) => a.trim().toLowerCase())
mapTrimLower(arr) == [i \in 1..Len(arr) |-> trimLower(arr[i])]

(***************************************************************************)
(* Values held in the selected mapping                                     *)
(***************************************************************************)
StrVal(s) == [t |-> "str", v |-> s]
ArrVal(l) == [t |-> "arr", v |-> l]

\* JavaScript truthiness of a stored answer: "" is falsy, every array is truthy
truthy(val) == val.t = "arr" \/ val.v # <<>>

\* {...m, [k]: v}
spread(m, k, v) == [i \in (DOMAIN m) \cup {k} |-> IF i = k THEN v ELSE m[i]]

\* {}
emptyMap == <<>>

(***************************************************************************)
(* Question sets handed to the quiz page through location.state            *)
(***************************************************************************)
Question(opts, isArr, ans) ==
    [options |-> opts, correct_answer_text |-> [t |-> IF isArr THEN "arr" ELSE "str", v |-> ans]]

\* single answer given as a string
QSingleStr == Question(<< <<"A">>, <<"a">>, <<"b">> >>, FALSE, <<" ", "A">>)
\* single answer given as a one-element array
QSingleArr == Question(<< <<"A">>, <<"b">> >>, TRUE, << <<"A">> >>)
\* two accepted answers given as a comma-joined string: "A, b"
QMultiStr == Question(<< <<"A">>, <<"b">>, <<"B">> >>, FALSE, <<"A", ",", " ", "b">>)
\* two accepted answers given as an array
QMultiArr == Question(<< <<"a">>, <<"B">>, <<"A">> >>, TRUE, << <<"a">>, <<"B">> >>)
\* free text, single answer
QTextSingle == Question(<<>>, FALSE, <<"a">>)
\* free text, comma-joined answer "a,b"
QTextMulti == Question(<<>>, FALSE, <<"a", ",", "b">>)

Quizzes ==
    { <<>>,
      <<QSingleStr, QSingleArr, QTextSingle>>,
      <<QMultiStr, QTextMulti>>,
      <<QMultiArr, QSingleArr>> }

\* values the user may type into the free-text input
TextInputs ==
    { <<>>, <<"a">>, <<" ", "A", " ">>, <<"b">>, <<" ">>, <<"a", ",", "b">> }

Variants == {"paged", "list"}

(***************************************************************************)
(* Answer normalizer, as each of its three call sites writes it            *)
(***************************************************************************)
\* handleSelect and the renderer: an array as it is, a string split and trimmed
correctAnswers(q) ==
    IF q.correct_answer_text.t = "arr"
    THEN q.correct_answer_text.v
    ELSE mapTrim(split(q.correct_answer_text.v))

\* calculateScore of the paginated page: both forms trimmed and lower-cased
calculateScore_correctAnswers(q) ==
    IF q.correct_answer_text.t = "arr"
    THEN mapTrimLower(q.correct_answer_text.v)
    ELSE mapTrimLower(split(q.correct_answer_text.v))

\* calculateScore of the list page: an array is taken as it is
List_calculateScore_correctAnswers(q) ==
    IF q.correct_answer_text.t = "arr"
    THEN q.correct_answer_text.v
    ELSE mapTrimLower(split(q.correct_answer_text.v))

isMultipleCorrect(q) == Len(correctAnswers(q)) > 1

hasOptions(q) == Len(q.options) > 0

(***************************************************************************)
(* Scorer                                                                  *)
(***************************************************************************)
\* the comparison both pages share, given the accepted answers ca
judge(ca, userAnswer) ==
    IF userAnswer.t = "arr"
    THEN IF /\ Len(userAnswer.v) = Len(ca)
            /\ \A k \in 1..Len(userAnswer.v) : includes(ca, trimLower(userAnswer.v[k]))
         THEN 1 ELSE 0
    ELSE IF includes(ca, trimLower(userAnswer.v)) THEN 1 ELSE 0

\* variant of scoreOfQuestion: a question without a recorded answer is not skipped
scoreOfQuestion_CountsMissing(qs, sel, i) ==
    IF i \notin DOMAIN sel THEN 1
    ELSE IF ~truthy(sel[i]) THEN 0
    ELSE judge(calculateScore_correctAnswers(qs[i + 1]), sel[i])

\* what question i (0-based) adds to the score on the paginated page
scoreOfQuestion(qs, sel, i) ==
    IF i \notin DOMAIN sel THEN 0
    ELSE IF ~truthy(sel[i]) THEN 0
    ELSE judge(calculateScore_correctAnswers(qs[i + 1]), sel[i])

\* what question i (0-based) adds to the score on the list page
List_scoreOfQuestion(qs, sel, i) ==
    IF i \notin DOMAIN sel THEN 0
    ELSE judge(List_calculateScore_correctAnswers(qs[i + 1]), sel[i])

RECURSIVE reduceScore(_, _, _)
reduceScore(qs, sel, n) ==
    IF n = 0 THEN 0
    ELSE reduceScore(qs, sel, n - 1) + scoreOfQuestion(qs, sel, n - 1)

calculateScore(qs, sel) == reduceScore(qs, sel, Len(qs))

RECURSIVE List_reduceScore(_, _, _)
List_reduceScore(qs, sel, n) ==
    IF n = 0 THEN 0
    ELSE List_reduceScore(qs, sel, n - 1) + List_scoreOfQuestion(qs, sel, n - 1)

List_calculateScore(qs, sel) == List_reduceScore(qs, sel, Len(qs))

(***************************************************************************)
(* Selection logic                                                         *)
(***************************************************************************)
\* variant of updated: a new option replaces the list instead of joining it
updated_Replaces(prev, option) ==
    IF includes(prev, option) THEN filterOut(prev, option) ELSE <<option>>

\* prev.includes(option) ? prev.filter(o => o !== option) : [...prev, option]
updated(prev, option) ==
    IF includes(prev, option) THEN filterOut(prev, option) ELSE Append(prev, option)

\* selected[i] || []
prevOrEmpty(sel, i) ==
    IF i \in DOMAIN sel /\ truthy(sel[i]) THEN sel[i].v ELSE <<>>

\* variant of selectInto: the option joins the list whether or not it is there
selectInto_AlwaysAppends(qs, sel, i, option) ==
    IF Len(correctAnswers(qs[i + 1])) > 1
    THEN spread(sel, i, ArrVal(Append(prevOrEmpty(sel, i), option)))
    ELSE spread(sel, i, StrVal(option))

\* the body both handleSelect functions share once they run
selectInto(qs, sel, i, option) ==
    IF Len(correctAnswers(qs[i + 1])) > 1
    THEN spread(sel, i, ArrVal(updated(prevOrEmpty(sel, i), option)))
    ELSE spread(sel, i, StrVal(option))

\* QuizPage.tsx: if (showAnswers) return;
List_selectInto(qs, sel, show, qIndex, option) ==
    IF show THEN sel ELSE selectInto(qs, sel, qIndex, option)

\* QuizPage.tsx: if (!showAnswers) setSelected(...)
List_textInto(sel, show, qIndex, value) ==
    IF ~show THEN spread(sel, qIndex, StrVal(value)) ELSE sel

\* variant of inputDisabled: the inputs stay enabled after submission
inputDisabled_Never(show) == FALSE

\* disabled={showAnswers} on the option buttons and the text input
inputDisabled(show) == show

(***************************************************************************)
(* Navigation and timer                                                    *)
(***************************************************************************)
\* variant of nextIndex: the bound check is missing
nextIndex_Unchecked(cq, n) == cq + 1

\* if (currentQ < questions.length - 1) setCurrentQ(prev => prev + 1)
nextIndex(cq, n) == IF cq < n - 1 THEN cq + 1 ELSE cq

\* if (currentQ > 0) setCurrentQ(prev => prev - 1)
prevIndex(cq) == IF cq > 0 THEN cq - 1 ELSE cq

\* variant of indicatorTargets: one indicator too many
indicatorTargets_OneMore(qs) == 0..Len(qs)

\* the indices the indicator bar offers: questions.map((_, i) => ... setCurrentQ(i))
indicatorTargets(qs) == 0..(Len(qs) - 1)

\* variant of timerActive: the interval is never cleared
timerActive_Always(running, show) == TRUE

\* an interval exists exactly while the effect's condition holds
timerActive(running, show) == running /\ ~show

\* variant of toggled: the negation is missing
toggled_NotNegated(mk, i) == i \in DOMAIN mk /\ mk[i]

\* !marked[currentQ], undefined counting as false
toggled(mk, i) == ~(i \in DOMAIN mk /\ mk[i])

\* const answered = selected[index], read as a condition
answeredAt(sel, index) == index \in DOMAIN sel /\ truthy(sel[index])

\* const isMarked = marked[index], read as a condition
isMarkedAt(mk, index) == index \in DOMAIN mk /\ mk[index]

\* variant of getStatusColor: the marked test comes before the combined one
getStatusColor_MarkedFirst(sel, mk, index) ==
    IF isMarkedAt(mk, index) THEN "marked_only"
    ELSE IF isMarkedAt(mk, index) /\ answeredAt(sel, index) THEN "answered_and_marked"
    ELSE IF answeredAt(sel, index) THEN "answered_only"
    ELSE "unanswered"

\* the status behind the colour getStatusColor returns
getStatusColor(sel, mk, index) ==
    IF isMarkedAt(mk, index) /\ answeredAt(sel, index) THEN "answered_and_marked"
    ELSE IF isMarkedAt(mk, index) THEN "marked_only"
    ELSE IF answeredAt(sel, index) THEN "answered_only"
    ELSE "unanswered"

\* the status behind the class the indicator bar computes
circleClass(sel, mk, i) ==
    IF answeredAt(sel, i) /\ isMarkedAt(mk, i) THEN "answered_and_marked"
    ELSE IF isMarkedAt(mk, i) THEN "marked_only"
    ELSE IF answeredAt(sel, i) THEN "answered_only"
    ELSE "unanswered"

currentQuestion == questions[currentQ + 1]
\* if (!currentQuestion) return <empty state>: no handler is reachable
hasCurrentQuestion == currentQ < Len(questions)

(***************************************************************************)
(* Quiz session: initial state                                             *)
(***************************************************************************)
\* useState<number | null>(null): 0 stands for null, the ids start at 1
null == 0

ResultIds == 1..NumResultQuestions

InitResultsVars ==
    /\ explanations = emptyMap
    /\ loadingId = null
    /\ inFlight = [id \in ResultIds |-> 0]

\* error === null; the messages are non-empty strings
noError == <<>>

\* UploadPage state after useState, on the route "/"
InitUploadVars ==
    /\ file = null
    /\ loading = FALSE
    /\ result = <<>>
    /\ error = noError
    /\ uploadInFlight = 0

\* no text has been handed to the math detector
InitMathVars ==
    /\ fragment = <<>>
    /\ shown = <<>>
    /\ passes = 0

Init ==
    /\ variant \in Variants
    /\ questions \in Quizzes
    /\ currentQ = 0
    /\ selected = emptyMap
    /\ marked = emptyMap
    /\ showAnswers = FALSE
    /\ timeElapsed = 0
    /\ isTimerRunning = TRUE
    /\ InitResultsVars
    /\ InitUploadVars
    /\ InitMathVars
    /\ route = "/quiz"

(***************************************************************************)
(* Paginated quiz page (src/unnamed/part_001)                              *)
(***************************************************************************)
handleSelect ==
    /\ variant = "paged"
    /\ hasCurrentQuestion
    /\ hasOptions(currentQuestion)
    /\ ~inputDisabled(showAnswers)
    /\ \E i \in 1..Len(currentQuestion.options) :
          selected' = selectInto(questions, selected, currentQ, currentQuestion.options[i])
    /\ UNCHANGED <<variant, questions, currentQ, marked, showAnswers, timeElapsed,
                   isTimerRunning, resultsVars, uploadVars, mathVars>>

handleTextChange ==
    /\ variant = "paged"
    /\ hasCurrentQuestion
    /\ ~hasOptions(currentQuestion)
    /\ ~inputDisabled(showAnswers)
    /\ \E value \in TextInputs :
          selected' = spread(selected, currentQ, StrVal(value))
    /\ UNCHANGED <<variant, questions, currentQ, marked, showAnswers, timeElapsed,
                   isTimerRunning, resultsVars, uploadVars, mathVars>>

\* variant of markForReview: marking also moves on to the next question
markForReview_Advances ==
    /\ variant = "paged"
    /\ hasCurrentQuestion
    /\ ~showAnswers
    /\ marked' = spread(marked, currentQ, toggled(marked, currentQ))
    /\ currentQ' = nextIndex(currentQ, Len(questions))
    /\ UNCHANGED <<variant, questions, selected, showAnswers, timeElapsed,
                   isTimerRunning, resultsVars, uploadVars, mathVars>>

markForReview ==
    /\ variant = "paged"
    /\ hasCurrentQuestion
    /\ ~showAnswers
    /\ marked' = spread(marked, currentQ, toggled(marked, currentQ))
    /\ UNCHANGED <<variant, questions, currentQ, selected, showAnswers, timeElapsed,
                   isTimerRunning, resultsVars, uploadVars, mathVars>>

\* the Next button is rendered before the last question, Submit on the last
nextQuestion ==
    /\ variant = "paged"
    /\ hasCurrentQuestion
    /\ ~showAnswers
    /\ currentQ < Len(questions) - 1
    /\ currentQ' = nextIndex(currentQ, Len(questions))
    /\ UNCHANGED <<variant, questions, selected, marked, showAnswers, timeElapsed,
                   isTimerRunning, resultsVars, uploadVars, mathVars>>

\* disabled={currentQ === 0}
prevQuestion ==
    /\ variant = "paged"
    /\ hasCurrentQuestion
    /\ ~showAnswers
    /\ currentQ # 0
    /\ currentQ' = prevIndex(currentQ)
    /\ UNCHANGED <<variant, questions, selected, marked, showAnswers, timeElapsed,
                   isTimerRunning, resultsVars, uploadVars, mathVars>>

\* variant of setCurrentQ: jumping to a question reopens the session
setCurrentQ_Reopens ==
    /\ variant = "paged"
    /\ hasCurrentQuestion
    /\ \E i \in indicatorTargets(questions) : currentQ' = i
    /\ showAnswers' = FALSE
    /\ UNCHANGED <<variant, questions, selected, marked, timeElapsed,
                   isTimerRunning, resultsVars, uploadVars, mathVars>>

\* a click on an indicator of the navigation bar, shown in both phases
setCurrentQ ==
    /\ variant = "paged"
    /\ hasCurrentQuestion
    /\ \E i \in indicatorTargets(questions) : currentQ' = i
    /\ UNCHANGED <<variant, questions, selected, marked, showAnswers, timeElapsed,
                   isTimerRunning, resultsVars, uploadVars, mathVars>>

\* variant of handleSubmit: the empty state does not hide the submit button
handleSubmit_NoEmptyState ==
    /\ variant = "paged"
    /\ ~showAnswers
    /\ ~(currentQ < Len(questions) - 1)
    /\ showAnswers' = TRUE
    /\ isTimerRunning' = FALSE
    /\ UNCHANGED <<variant, questions, currentQ, selected, marked, timeElapsed,
                   resultsVars, uploadVars, mathVars>>

handleSubmit ==
    /\ variant = "paged"
    /\ hasCurrentQuestion
    /\ ~showAnswers
    /\ ~(currentQ < Len(questions) - 1)
    /\ showAnswers' = TRUE
    /\ isTimerRunning' = FALSE
    /\ UNCHANGED <<variant, questions, currentQ, selected, marked, timeElapsed,
                   resultsVars, uploadVars, mathVars>>

\* variant of retakeQuiz: the review marks and the position are kept
retakeQuiz_KeepsMarks ==
    /\ variant = "paged"
    /\ hasCurrentQuestion
    /\ showAnswers
    /\ showAnswers' = FALSE
    /\ selected' = emptyMap
    /\ timeElapsed' = 0
    /\ isTimerRunning' = TRUE
    /\ UNCHANGED <<variant, questions, currentQ, marked, resultsVars, uploadVars, mathVars>>

retakeQuiz ==
    /\ variant = "paged"
    /\ hasCurrentQuestion
    /\ showAnswers
    /\ showAnswers' = FALSE
    /\ selected' = emptyMap
    /\ marked' = emptyMap
    /\ currentQ' = 0
    /\ timeElapsed' = 0
    /\ isTimerRunning' = TRUE
    /\ UNCHANGED <<variant, questions, resultsVars, uploadVars, mathVars>>

(***************************************************************************)
(* List quiz page (src/components/QuizPage.tsx)                            *)
(***************************************************************************)
List_handleSelect ==
    /\ variant = "list"
    /\ ~inputDisabled(showAnswers)
    /\ \E qIndex \in 0..(Len(questions) - 1) :
          /\ hasOptions(questions[qIndex + 1])
          /\ \E i \in 1..Len(questions[qIndex + 1].options) :
                selected' = List_selectInto(questions, selected, showAnswers, qIndex,
                                            questions[qIndex + 1].options[i])
    /\ UNCHANGED <<variant, questions, currentQ, marked, showAnswers, timeElapsed,
                   isTimerRunning, resultsVars, uploadVars, mathVars>>

List_handleTextChange ==
    /\ variant = "list"
    /\ ~inputDisabled(showAnswers)
    /\ \E qIndex \in 0..(Len(questions) - 1) :
          /\ ~hasOptions(questions[qIndex + 1])
          /\ \E value \in TextInputs :
                selected' = List_textInto(selected, showAnswers, qIndex, value)
    /\ UNCHANGED <<variant, questions, currentQ, marked, showAnswers, timeElapsed,
                   isTimerRunning, resultsVars, uploadVars, mathVars>>

\* disabled={Object.keys(selected).length === 0}
List_handleSubmit ==
    /\ variant = "list"
    /\ Len(questions) # 0
    /\ ~showAnswers
    /\ Cardinality(DOMAIN selected) # 0
    /\ showAnswers' = TRUE
    /\ isTimerRunning' = FALSE
    /\ UNCHANGED <<variant, questions, currentQ, selected, marked, timeElapsed,
                   resultsVars, uploadVars, mathVars>>

List_clearAll ==
    /\ variant = "list"
    /\ Len(questions) # 0
    /\ ~showAnswers
    /\ selected' = emptyMap
    /\ UNCHANGED <<variant, questions, currentQ, marked, showAnswers, timeElapsed,
                   isTimerRunning, resultsVars, uploadVars, mathVars>>

List_retakeQuiz ==
    /\ variant = "list"
    /\ Len(questions) # 0
    /\ showAnswers
    /\ showAnswers' = FALSE
    /\ selected' = emptyMap
    /\ timeElapsed' = 0
    /\ isTimerRunning' = TRUE
    /\ UNCHANGED <<variant, questions, currentQ, marked, resultsVars, uploadVars, mathVars>>

(***************************************************************************)
(* Timer pulse, the same effect in both pages                              *)
(***************************************************************************)
tick ==
    /\ timerActive(isTimerRunning, showAnswers)
    /\ timeElapsed < MaxTime
    /\ timeElapsed' = timeElapsed + 1
    /\ UNCHANGED <<variant, questions, currentQ, selected, marked, showAnswers,
                   isTimerRunning, resultsVars, uploadVars, mathVars>>

Next ==
    \/ handleSelect
    \/ handleTextChange
    \/ markForReview
    \/ nextQuestion
    \/ prevQuestion
    \/ setCurrentQ
    \/ handleSubmit
    \/ retakeQuiz
    \/ List_handleSelect
    \/ List_handleTextChange
    \/ List_handleSubmit
    \/ List_clearAll
    \/ List_retakeQuiz
    \/ tick

Spec == Init /\ [][Next]_vars

(***************************************************************************)
(* Results page (src/unnamed/part_002): explanation requests               *)
(***************************************************************************)
NoExplanation == <<"No explanation available.">>
ErrorExplanation == <<"Error generating explanation.">>

\* texts the explanation service may answer with
ResponseTexts == { <<"a">>, <<" ", "b", " ">>, <<" ">> }

\* explanations[id] is truthy: present and not the empty string
hasExplanation(ex, id) == id \in DOMAIN ex /\ ex[id] # <<>>

\* disabled={loadingId === q.id}
explainDisabled(ld, id) == ld = id

TotalInFlight == Cardinality({p \in ResultIds \X (1..MaxInFlight) : p[2] <= inFlight[p[1]]})

\* a click on "Get AI Explanation": runs up to the await
handleGetExplanation ==
    /\ \E id \in ResultIds :
          /\ ~hasExplanation(explanations, id)
          /\ ~explainDisabled(loadingId, id)
          /\ TotalInFlight < MaxInFlight
          /\ loadingId' = id
          /\ inFlight' = [inFlight EXCEPT ![id] = @ + 1]
    /\ UNCHANGED <<explanations, quizVars, uploadVars, mathVars>>

\* variant of explanationResolved: the new mapping holds the answer alone
explanationResolved_DropsOthers ==
    /\ \E id \in ResultIds :
          /\ inFlight[id] > 0
          /\ \E text \in ResponseTexts \cup {NoExplanation} :
                explanations' = spread(emptyMap, id, trim(text))
          /\ loadingId' = null
          /\ inFlight' = [inFlight EXCEPT ![id] = @ - 1]
    /\ UNCHANGED <<quizVars, uploadVars, mathVars>>

\* the awaited call returns: the try branch, then finally
explanationResolved ==
    /\ \E id \in ResultIds :
          /\ inFlight[id] > 0
          /\ \E text \in ResponseTexts \cup {NoExplanation} :
                explanations' = spread(explanations, id, trim(text))
          /\ loadingId' = null
          /\ inFlight' = [inFlight EXCEPT ![id] = @ - 1]
    /\ UNCHANGED <<quizVars, uploadVars, mathVars>>

\* the awaited call throws: the catch branch, then finally
rejectedFor(id) ==
    /\ inFlight[id] > 0
    /\ explanations' = spread(explanations, id, ErrorExplanation)
    /\ loadingId' = null
    /\ inFlight' = [inFlight EXCEPT ![id] = @ - 1]
    /\ UNCHANGED <<quizVars, uploadVars, mathVars>>

explanationRejected == \E id \in ResultIds : rejectedFor(id)

InitResults ==
    /\ variant = "paged"
    /\ questions = <<>>
    /\ currentQ = 0
    /\ selected = emptyMap
    /\ marked = emptyMap
    /\ showAnswers = FALSE
    /\ timeElapsed = 0
    /\ isTimerRunning = TRUE
    /\ InitResultsVars
    /\ InitUploadVars
    /\ InitMathVars
    /\ route = "/"

NextResults ==
    \/ handleGetExplanation
    \/ explanationResolved
    \/ explanationRejected

SpecResults == InitResults /\ [][NextResults]_vars

(***************************************************************************)
(* Upload page (src/components/UploadPage.tsx)                             *)
(***************************************************************************)
\* how many different PDF documents the user can pick
NumPdfFiles == 2

PdfFiles == 1..NumPdfFiles

\* the MIME types of the files offered to the file input
FileTypes == {"application/pdf", "image/png"}

InvalidFileMessage == <<"Please upload a valid PDF file.">>
NoFileMessage == <<"Please select a PDF file first!">>
AnalyzeErrorMessage == <<"Error analyzing the PDF. Check console for details.">>

\* the code fence the answer may be wrapped in; "'" stands for the
\* backquote
FenceOpen == <<"'", "'", "'", "j", "s", "o", "n", "\n">>
FenceClose == <<"'", "'", "'">>

\* a serialised list of question records; "q" abbreviates the records
QuizText == <<"[", "q", "]">>

\* the question list QuizText deserialises to
ExtractedQuiz == <<QSingleStr, QSingleArr, QTextSingle>>

\* text parts the extraction service can answer with; <<>> is a response
\* without a text part
ApiTexts ==
    { <<>>,
      <<"n", "o">>,
      <<"{", "}">>,
      <<"[", "]">>,
      <<" ", "[", "]", " ">>,
      FenceOpen \o <<"[", "]">> \o FenceClose,
      FenceOpen \o <<"{", "}">> \o FenceClose,
      QuizText }

\* outcomes of the POST: a rejection, or a response with a text part
ApiResponses ==
    {[ok |-> FALSE, text |-> <<>>]} \cup {[ok |-> TRUE, text |-> t] : t \in ApiTexts}

hasPrefix(s, p) == Len(s) >= Len(p) /\ SubSeq(s, 1, Len(p)) = p

hasSuffix(s, p) == Len(s) >= Len(p) /\ SubSeq(s, Len(s) - Len(p) + 1, Len(s)) = p

\* textOutput.replace(/^'''json\n|'''$/g, "")
stripFence(s) ==
    LET a == IF hasPrefix(s, FenceOpen) THEN SubSeq(s, Len(FenceOpen) + 1, Len(s)) ELSE s
    IN IF hasSuffix(a, FenceClose) THEN SubSeq(a, 1, Len(a) - Len(FenceClose)) ELSE a

\* JSON.parse on the texts above: a syntax error, an array, or another value
JSONparse(s) ==
    IF s = <<"[", "]">> THEN [ok |-> TRUE, isArray |-> TRUE, value |-> <<>>]
    ELSE IF s = QuizText THEN [ok |-> TRUE, isArray |-> TRUE, value |-> ExtractedQuiz]
    ELSE IF s = <<"{", "}">> THEN [ok |-> TRUE, isArray |-> FALSE, value |-> <<>>]
    ELSE [ok |-> FALSE, isArray |-> FALSE, value |-> <<>>]

\* JSON.stringify of a parsed question list
JSONstringify(v) == IF v = <<>> THEN <<"[", "]">> ELSE QuizText

\* what sendPDFToGemini resolves to for a response the POST delivered
sendPDFToGemini(response) ==
    LET textOutput == response.text
        parsed == JSONparse(trim(stripFence(textOutput)))
    IN IF parsed.ok /\ parsed.isArray THEN ArrVal(parsed.value) ELSE StrVal(textOutput)

\* what the file input can deliver: a PDF, another file, or no file at all
NoFileChosen == [type |-> "", id |-> null]
FileChoices ==
    {[type |-> "application/pdf", id |-> f] : f \in PdfFiles}
        \cup {[type |-> "image/png", id |-> null], NoFileChosen}

\* selectedFile && selectedFile.type === "application/pdf"
isPdf(sel) == sel # NoFileChosen /\ sel.type = "application/pdf"

\* handleFileChange: the file and the error it leaves, f being the file before
fileAfterChange_KeepsFile(sel, f) == IF isPdf(sel) THEN sel.id ELSE f
fileAfterChange(sel, f) == IF isPdf(sel) THEN sel.id ELSE null

errorAfterChange(sel) == IF isPdf(sel) THEN noError ELSE InvalidFileMessage

\* variant of uploadDisabled: the button stays enabled while loading
uploadDisabled_IgnoresLoading(f, ld) == f = null

\* the upload button: disabled={!file || loading}
uploadDisabled(f, ld) == f = null \/ ld

\* {error && <ErrorModal ...>} and {result && ...}
errorShown(e) == e # noError
resultShown(r) == r # <<>>

\* handleFileChange, the file input delivering sel
changedTo(sel) ==
    /\ route = "/"
    /\ file' = fileAfterChange(sel, file)
    /\ error' = errorAfterChange(sel)
    /\ UNCHANGED <<route, loading, result, uploadInFlight, quizVars, resultsVars, mathVars>>

handleFileChange == \E sel \in FileChoices : changedTo(sel)

\* handleUpload up to the await
handleUpload ==
    /\ route = "/"
    /\ ~uploadDisabled(file, loading)
    /\ IF file = null
       THEN /\ error' = NoFileMessage
            /\ UNCHANGED <<loading, result, uploadInFlight>>
       ELSE /\ loading' = TRUE
            /\ error' = noError
            /\ result' = <<>>
            /\ uploadInFlight' = uploadInFlight + 1
    /\ UNCHANGED <<route, file, quizVars, resultsVars, mathVars>>

\* handleUpload after the await, sendPDFToGemini having resolved
resolvedWith(response) ==
    /\ route = "/"
    /\ uploadInFlight > 0
    /\ response.ok
    /\ LET r == sendPDFToGemini(response)
       IN IF r.t = "str"
          THEN /\ result' = r.v
               /\ UNCHANGED <<route, questions>>
          ELSE /\ result' = JSONstringify(r.v)
               /\ route' = "/quiz"
               /\ questions' = r.v
    /\ loading' = FALSE
    /\ uploadInFlight' = uploadInFlight - 1
    /\ UNCHANGED <<file, error, variant, currentQ, selected, marked, showAnswers,
                   timeElapsed, isTimerRunning, resultsVars, mathVars>>

uploadResolved == \E response \in ApiResponses : resolvedWith(response)

\* handleUpload after the await, sendPDFToGemini having thrown
uploadRejected ==
    /\ route = "/"
    /\ uploadInFlight > 0
    /\ error' = AnalyzeErrorMessage
    /\ loading' = FALSE
    /\ uploadInFlight' = uploadInFlight - 1
    /\ UNCHANGED <<route, file, result, quizVars, resultsVars, mathVars>>

\* ErrorModal onClose
closeError ==
    /\ route = "/"
    /\ errorShown(error)
    /\ error' = noError
    /\ UNCHANGED <<route, file, loading, result, uploadInFlight, quizVars, resultsVars, mathVars>>

InitUpload ==
    /\ variant \in Variants
    /\ questions = <<>>
    /\ currentQ = 0
    /\ selected = emptyMap
    /\ marked = emptyMap
    /\ showAnswers = FALSE
    /\ timeElapsed = 0
    /\ isTimerRunning = TRUE
    /\ InitResultsVars
    /\ InitUploadVars
    /\ InitMathVars
    /\ route = "/"

NextUpload ==
    \/ handleFileChange
    \/ handleUpload
    \/ uploadResolved
    \/ uploadRejected
    \/ closeError
    \/ (route = "/quiz" /\ Next)

SpecUpload == InitUpload /\ [][NextUpload]_vars

\* the awaited sendPDFToGemini promise settles: it resolves or it throws
SpecUploadLive == SpecUpload /\ WF_vars(uploadResolved \/ uploadRejected)

(***************************************************************************)
(* Math detector (normalizeMath of both quiz pages)                        *)
(***************************************************************************)
\* longest generated fragment, and how often the detector is applied
MaxFragmentLen == 3
MaxPasses == 2

Letters ==
    {"a", "b", "c", "d", "e", "f", "g", "h", "i", "j", "k", "l", "m",
     "n", "o", "p", "q", "r", "s", "t", "u", "v", "w", "x", "y", "z",
     "A", "B", "C", "D", "E", "F", "G", "H", "I", "J", "K", "L", "M",
     "N", "O", "P", "Q", "R", "S", "T", "U", "V", "W", "X", "Y", "Z"}

Digits == {"0", "1", "2", "3", "4", "5", "6", "7", "8", "9"}

\* [a-zA-Z0-9+\\\-]
ExponentChars == Letters \cup Digits \cup {"+", "\\", "-"}

\* (sqrt|frac|cdot|times|pm|le|ge|neq|sum|int|log|sin|cos|tan|pi|alpha|beta|gamma)
Commands ==
    { <<"s", "q", "r", "t">>, <<"f", "r", "a", "c">>, <<"c", "d", "o", "t">>,
      <<"t", "i", "m", "e", "s">>, <<"p", "m">>, <<"l", "e">>, <<"g", "e">>,
      <<"n", "e", "q">>, <<"s", "u", "m">>, <<"i", "n", "t">>, <<"l", "o", "g">>,
      <<"s", "i", "n">>, <<"c", "o", "s">>, <<"t", "a", "n">>, <<"p", "i">>,
      <<"a", "l", "p", "h", "a">>, <<"b", "e", "t", "a">>,
      <<"g", "a", "m", "m", "a">> }

\* the text from position i on starts with p
startsAt(text, i, p) ==
    i + Len(p) - 1 <= Len(text) /\ SubSeq(text, i, i + Len(p) - 1) = p

\* first alternative of mathPattern: a backslash followed by a command name
commandAt(text, i) ==
    text[i] = "\\" /\ \E c \in Commands : startsAt(text, i + 1, c)

\* second alternative, from its "^" on: an optional opening bracket, then at
\* least one exponent character; what precedes and follows is optional
exponentAt(text, i) ==
    /\ text[i] = "^"
    /\ \/ i + 1 <= Len(text) /\ text[i + 1] \in ExponentChars
       \/ /\ i + 2 <= Len(text)
          /\ text[i + 1] \in {"{", "("}
          /\ text[i + 2] \in ExponentChars

\* mathPattern.test(text)
mathPattern(text) ==
    \E i \in 1..Len(text) : commandAt(text, i) \/ exponentAt(text, i)

\* variant of normalizeMath: text that holds "$" is not passed through
normalizeMath_NoDollarCheck(text) ==
    IF text = <<>> THEN text
    ELSE IF mathPattern(text) THEN <<"$">> \o text \o <<"$">>
    ELSE text

normalizeMath(text) ==
    IF text = <<>> THEN text
    ELSE IF includes(text, "$") THEN text
    ELSE IF mathPattern(text) THEN <<"$">> \o text \o <<"$">>
    ELSE text

\* the characters the generated fragments are made of
MathAlphabet == {"x", "^", "2", "$", "\\", "p", "i", "{", " "}

RECURSIVE SeqsUpTo(_, _)
SeqsUpTo(S, k) ==
    IF k = 0 THEN {<<>>}
    ELSE LET shorter == SeqsUpTo(S, k - 1)
         IN shorter \cup {Append(t, c) : t \in shorter, c \in S}

\* "x^2 + 1" and "The capital is Paris"
PolynomialText == <<"x", "^", "2", " ", "+", " ", "1">>
ParisText ==
    <<"T", "h", "e", " ", "c", "a", "p", "i", "t", "a", "l", " ", "i", "s", " ",
      "P", "a", "r", "i", "s">>

Fragments == SeqsUpTo(MathAlphabet, MaxFragmentLen) \cup {PolynomialText, ParisText}

\* one more pass of the detector over the text on display
applyDetector ==
    /\ passes < MaxPasses
    /\ shown' = normalizeMath(shown)
    /\ passes' = passes + 1
    /\ UNCHANGED <<fragment, quizVars, resultsVars, uploadVars>>

InitMath ==
    /\ variant \in Variants
    /\ questions = <<>>
    /\ currentQ = 0
    /\ selected = emptyMap
    /\ marked = emptyMap
    /\ showAnswers = FALSE
    /\ timeElapsed = 0
    /\ isTimerRunning = TRUE
    /\ InitResultsVars
    /\ InitUploadVars
    /\ route = "/quiz"
    /\ fragment \in Fragments
    /\ shown = fragment
    /\ passes = 0

NextMath == applyDetector

SpecMath == InitMath /\ [][NextMath]_vars

(***************************************************************************)
(* Properties                                                              *)
(***************************************************************************)
\* the score the page in use displays
Score ==
    IF variant = "paged" THEN calculateScore(questions, selected)
    ELSE List_calculateScore(questions, selected)

\* what question i adds to the score of the page in use
ScoreOf(i) ==
    IF variant = "paged" THEN scoreOfQuestion(questions, selected, i)
    ELSE List_scoreOfQuestion(questions, selected, i)

\* the accepted answers the scorer of the page in use compares with
ScorerAccepted(q) ==
    IF variant = "paged" THEN calculateScore_correctAnswers(q)
    ELSE List_calculateScore_correctAnswers(q)

\* the accepted-answer set of the data model: trimmed, lower-cased
Accepted(q) == mapTrimLower(correctAnswers(q))

QuestionIndices == 0..(Len(questions) - 1)

AsSet(arr) == {arr[k] : k \in 1..Len(arr)}

\* C1: while the session stays submitted the answers mapping does not change,
\* on the paginated page and on the list page.
C1_AnswersFrozenWhileSubmitted ==
    [][(showAnswers /\ showAnswers') => selected' = selected]_vars

\* a submitted session of the paginated page that holds answers
C1_Witness ==
    /\ variant = "paged"
    /\ showAnswers
    /\ \E i \in DOMAIN selected : truthy(selected[i])

\* C2: no question ever has more than one explanation request in flight.
C2_OneRequestPerQuestion ==
    \A id \in ResultIds : inFlight[id] <= 1

\* C3: for a question with a single accepted answer A, a recorded non-empty
\* string scores 1 exactly if it equals A after trimming and case folding.
C3_SingleAnswerScoring ==
    \A i \in QuestionIndices :
        (/\ Len(correctAnswers(questions[i + 1])) = 1
         /\ i \in DOMAIN selected
         /\ selected[i].t = "str"
         /\ selected[i].v # <<>>)
        => (ScoreOf(i) = 1
              <=> trimLower(selected[i].v) = trimLower(correctAnswers(questions[i + 1])[1]))

\* C3 restricted to the paginated page, where the scorer normalizes both forms
C3_PagedSingleAnswerScoring ==
    variant = "paged" => C3_SingleAnswerScoring

\* C4: for a multi-select question with accepted answers S, a recorded list
\* scores 1 exactly if it is as long as S and every entry, trimmed and
\* lower-cased, is in S; a list with fewer entries, all of them in S (a proper
\* subset), or with more entries covering all of S (a proper superset) scores 0.
C4_MultiSelectScoring ==
    \A i \in QuestionIndices :
        LET S == Accepted(questions[i + 1])
        IN  (/\ Len(S) > 1
             /\ i \in DOMAIN selected
             /\ selected[i].t = "arr")
            => LET u == selected[i].v
                   un == AsSet(mapTrimLower(u))
               IN  /\ ScoreOf(i) = 1
                        <=> (Len(u) = Len(S) /\ un \subseteq AsSet(S))
                   /\ (Len(u) < Len(S) /\ un \subseteq AsSet(S)) => ScoreOf(i) = 0
                   /\ (Len(u) > Len(S) /\ AsSet(S) \subseteq un) => ScoreOf(i) = 0

\* C4 restricted to the paginated page
C4_PagedMultiSelectScoring ==
    variant = "paged" => C4_MultiSelectScoring

\* C5: every accepted answer the scorer compares with is lower-cased, for a
\* string answer spec and for a list answer spec, on both pages.
C5_AcceptedLowerCased ==
    \A i \in QuestionIndices :
        LET ca == ScorerAccepted(questions[i + 1])
        IN  \A k \in 1..Len(ca) : ca[k] = toLowerCase(ca[k])

\* C5 restricted to the paginated page
C5_PagedAcceptedLowerCased ==
    variant = "paged" => C5_AcceptedLowerCased

\* C6: a question without a recorded answer adds 0, and the score lies
\* between 0 and the number of answered questions, hence of questions.
C6_ScoreBounds ==
    /\ \A i \in QuestionIndices : i \notin DOMAIN selected => ScoreOf(i) = 0
    /\ 0 <= Score
    /\ Score <= Cardinality(DOMAIN selected)
    /\ Score <= Len(questions)

\* a positive score while some question has no recorded answer
C6_Witness ==
    /\ Score >= 1
    /\ \E i \in QuestionIndices : i \notin DOMAIN selected

\* C7: with a non-empty question sequence the pointer is a valid index.
C7_CurrentIndexValid ==
    Len(questions) > 0 => (0 <= currentQ /\ currentQ < Len(questions))

\* the pointer on the last of several questions, after submission
C7_Witness ==
    /\ Len(questions) > 1
    /\ currentQ = Len(questions) - 1
    /\ showAnswers

\* C8: advancing at the last index and retreating at index 0 leave the pointer
\* where it is, and no step moves the pointer to an index out of range.
C8_NavigationBounds ==
    /\ [](Len(questions) > 0 =>
            /\ currentQ = Len(questions) - 1 => nextIndex(currentQ, Len(questions)) = currentQ
            /\ currentQ = 0 => prevIndex(currentQ) = currentQ
            /\ indicatorTargets(questions) \subseteq QuestionIndices)
    /\ [][currentQ' # currentQ => currentQ' \in QuestionIndices]_vars

\* the pointer was advanced to the last of several questions, session open
C8_Witness ==
    /\ variant = "paged"
    /\ Len(questions) > 1
    /\ currentQ = Len(questions) - 1
    /\ ~showAnswers

\* C9: while the session stays submitted, elapsed time does not change.
C9_TimeFrozenWhileSubmitted ==
    [][(showAnswers /\ showAnswers') => timeElapsed' = timeElapsed]_vars

\* a submitted session whose clock had started and could still count
C9_Witness ==
    /\ showAnswers
    /\ timeElapsed > 0
    /\ timeElapsed < MaxTime

\* C10: the step that leaves the submitted state yields the initial state.
C10_ResetYieldsInitialState ==
    [][(showAnswers /\ ~showAnswers') =>
          /\ selected' = emptyMap
          /\ marked' = emptyMap
          /\ currentQ' = 0
          /\ timeElapsed' = 0
          /\ isTimerRunning'
          /\ questions' = questions
          /\ variant' = variant]_vars

\* a submitted session in which every field differs from its initial value
C10_Witness ==
    /\ showAnswers
    /\ selected # emptyMap
    /\ \E i \in DOMAIN marked : marked[i]
    /\ currentQ # 0
    /\ timeElapsed > 0
    /\ ~isTimerRunning


\* C11: the only step that takes a submitted session back to in_progress is
\* the retake action; under every other action it stays submitted.
C11_SubmittedUntilRetake ==
    [][(showAnswers /\ ~showAnswers') => (retakeQuiz \/ List_retakeQuiz)]_vars

\* a submitted session in which an action other than retake has acted: submit
\* happens on the last question, the pointer has since been moved away
C11_Witness ==
    /\ variant = "paged"
    /\ showAnswers
    /\ currentQ # Len(questions) - 1

\* the entries of list l other than option o, in their order
Without(l, o) ==
    LET keep(e) == e # o IN SelectSeq(l, keep)

\* the stored list of question i, empty when nothing truthy is stored
StoredList(sel, i) ==
    IF i \in DOMAIN sel /\ sel[i].t = "arr" THEN sel[i].v ELSE <<>>

\* selected' is selected with option o of question i toggled (multi-select)
\* or put in place of the stored value (single-select), nothing else touched
SelectEffect(i, o) ==
    /\ DOMAIN selected' = DOMAIN selected \cup {i}
    /\ \A j \in DOMAIN selected : j # i => selected'[j] = selected[j]
    /\ IF isMultipleCorrect(questions[i + 1])
       THEN /\ selected'[i].t = "arr"
            /\ IF o \in AsSet(StoredList(selected, i))
               THEN selected'[i].v = Without(StoredList(selected, i), o)
               ELSE selected'[i].v = StoredList(selected, i) \o <<o>>
       ELSE selected'[i] = StrVal(o)

\* C12: a select_option step inserts the option into the stored list of a
\* multi-select question when absent and removes it when present, the other
\* entries staying as they are; on a single-select question it replaces the
\* stored value; the answers of the other questions do not change.
C12_SelectOptionEffect ==
    [][(handleSelect \/ List_handleSelect) =>
          \E i \in QuestionIndices :
             \E k \in 1..Len(questions[i + 1].options) :
                SelectEffect(i, questions[i + 1].options[k])]_vars

\* a multi-select list from which an option was removed and another kept,
\* next to an answered single-select question
C12_Witness ==
    \E i, j \in DOMAIN selected :
        /\ selected[i].t = "arr"
        /\ Len(selected[i].v) = 1
        /\ selected[i].v[1] = questions[i + 1].options[2]
        /\ selected[j].t = "str"


\* the review flag of index i after the handler ran on index c
FlagAfterToggle(mk, c, i) == isMarkedAt(spread(mk, c, toggled(mk, c)), i)

\* on the paginated page, with a question on display, the Mark button exists
MarkOffered == (variant = "paged" /\ hasCurrentQuestion) => ENABLED markForReview

\* C13 as stated: toggle_mark flips the flag of its index and of no other, and
\* it is allowed in the in_progress state and in the submitted state.
C13_MarkAllowedInBothStates ==
    /\ \A c, i \in QuestionIndices :
          FlagAfterToggle(marked, c, i) = IF i = c THEN ~isMarkedAt(marked, i)
                                          ELSE isMarkedAt(marked, i)
    /\ MarkOffered

\* C13 amended: a toggle_mark step flips the flag of the current index and of
\* no other; it is offered while in progress only, and while the session
\* stays submitted the marks do not change.
C13_MarkFlipsWhileInProgress ==
    /\ [][markForReview =>
            \A i \in QuestionIndices :
               isMarkedAt(marked', i) = IF i = currentQ THEN ~isMarkedAt(marked, i)
                                        ELSE isMarkedAt(marked, i)]_vars
    /\ []((variant = "paged" /\ hasCurrentQuestion) =>
            (ENABLED markForReview <=> ~showAnswers))
    /\ [][(showAnswers /\ showAnswers') => marked' = marked]_vars

\* one question marked and then unmarked while another one stays marked
C13_Witness ==
    \E i, j \in DOMAIN marked : ~marked[i] /\ marked[j]

\* the question has an answer: a non-empty string or a list is stored for it
HasAnswer(i) ==
    /\ i \in DOMAIN selected
    /\ (selected[i].t = "arr" \/ Len(selected[i].v) > 0)

IsMarked(i) == i \in DOMAIN marked /\ marked[i] = TRUE

C15_AnswerShapeFollowsMultiplicity ==
    /\ \A i \in QuestionIndices :
          (Len(ScorerAccepted(questions[i + 1])) > 1) = isMultipleCorrect(questions[i + 1])
    /\ \A i \in DOMAIN selected :
          isMultipleCorrect(questions[i + 1]) <=> selected[i].t = "arr"

\* C15 for the questions that have options
C15_OptionsAnswerShape ==
    \A i \in DOMAIN selected :
        hasOptions(questions[i + 1]) =>
            (isMultipleCorrect(questions[i + 1]) <=> selected[i].t = "arr")

\* the request of question o is the one marked pending
MarkedPending(ld, o) == ld = o

\* C16: a failed request for question id stores the fallback string for id,
\* and leaves the stored explanation and the pending marker of every other
\* question as they were.
C16_FailureIsolated ==
    [][\A id \in ResultIds :
          rejectedFor(id) =>
             /\ explanations'[id] = ErrorExplanation
             /\ \A o \in ResultIds \ {id} :
                   /\ (o \in DOMAIN explanations') = (o \in DOMAIN explanations)
                   /\ o \in DOMAIN explanations => explanations'[o] = explanations[o]
                   /\ MarkedPending(loadingId', o) = MarkedPending(loadingId, o)]_vars

\* C17: after a failed request the question is not resolved, so that a later
\* request for it is possible.
C17_FailureNotCached ==
    [][\A id \in ResultIds :
          rejectedFor(id) => ~hasExplanation(explanations', id)]_vars


\* the attempt answered by response ends with a list of question records
YieldsList(response) == response.ok /\ sendPDFToGemini(response).t = "arr"

\* C18: an upload attempt that does not yield a list of question records
\* (the request throws, or the response does not parse as a JSON array) never
\* enters the quiz view, and leaves the raw response text or the error notice
\* on display.
C18_NoListSurfaced ==
    [][/\ \A response \in ApiResponses :
            (resolvedWith(response) /\ ~YieldsList(response)) =>
                /\ route' = "/"
                /\ resultShown(result') \/ errorShown(error')
       /\ uploadRejected => (route' = "/" /\ errorShown(error'))]_vars

\* the part of C18 the upload page keeps: without a list the quiz view is
\* not entered, and a thrown request shows the error notice
C18_NoListStaysOnUpload ==
    [][/\ \A response \in ApiResponses :
            (resolvedWith(response) /\ ~YieldsList(response)) =>
                (route' = "/" /\ questions' = questions /\ result' = response.text)
       /\ uploadRejected => (route' = "/" /\ error' = AnalyzeErrorMessage)]_vars


\* the upload action is offered: the button is enabled and pressing it starts
\* an extraction request
UploadOffered == ENABLED handleUpload

\* the state a rejected selection leaves
InvalidFileNoticed == file = null /\ error = InvalidFileMessage

\* C19 as stated: a selection that is not a PDF sets the error notice and
\* leaves no file selected, and with no file no extraction request can be
\* started; selecting a PDF afterwards clears the error and enables the
\* upload action.
C19_InvalidFileRecoverable ==
    /\ [][\A sel \in FileChoices : changedTo(sel) =>
             IF isPdf(sel)
             THEN InvalidFileNoticed =>
                      (error' = noError /\ ~uploadDisabled(file', loading'))
             ELSE error' = InvalidFileMessage /\ file' = null]_vars
    /\ [](file = null => ~UploadOffered)

\* C19: a selection that is not a PDF sets the error notice and leaves no file
\* selected, and with no file no extraction request can be started; selecting
\* a PDF clears the error and selects the file, which enables the upload
\* action unless an extraction request is still in flight.
C19_InvalidFileRecoverableWhenIdle ==
    /\ [][\A sel \in FileChoices : changedTo(sel) =>
             IF isPdf(sel)
             THEN /\ error' = noError
                  /\ file' = sel.id
                  /\ uploadDisabled(file', loading') <=> loading'
             ELSE error' = InvalidFileMessage /\ file' = null]_vars
    /\ [](file = null => ~UploadOffered)
    /\ []((route = "/" /\ file # null /\ ~loading) => UploadOffered)

\* a file that is not a PDF was chosen while a request is in flight
C19_Witness ==
    /\ route = "/"
    /\ file = null
    /\ error = InvalidFileMessage
    /\ loading


\* the quiz view shows the empty-state message instead of the quiz
EmptyState == route = "/quiz" /\ Len(questions) = 0

\* some session action of the page in use can be taken
SessionActionOffered ==
    \/ ENABLED handleSelect
    \/ ENABLED handleTextChange
    \/ ENABLED markForReview
    \/ ENABLED nextQuestion
    \/ ENABLED prevQuestion
    \/ ENABLED setCurrentQ
    \/ ENABLED handleSubmit
    \/ ENABLED retakeQuiz
    \/ ENABLED List_handleSelect
    \/ ENABLED List_handleTextChange
    \/ ENABLED List_handleSubmit
    \/ ENABLED List_clearAll
    \/ ENABLED List_retakeQuiz

\* the results panel divides the score by questions.length
PercentageComputed == showAnswers

\* C20: with an empty question sequence the quiz view is in its empty state:
\* no session action (select, enter text, mark, navigate, submit, retake) is
\* available, the session state never changes, and the score percentage is
\* never computed with a total of 0.
C20_EmptyStateInert ==
    /\ [](EmptyState => ~SessionActionOffered)
    /\ [](PercentageComputed => Len(questions) > 0)
    /\ [][EmptyState =>
            UNCHANGED <<questions, currentQ, selected, marked, showAnswers>>]_vars

\* the empty state is on display and the clock has advanced
C20_Witness == EmptyState /\ timeElapsed > 0


\* the fragment between single "$" delimiters
Wrapped(text) == <<"$">> \o text \o <<"$">>

\* what the detector owes for a fragment: unchanged with a "$" in it,
\* otherwise wrapped exactly when a trigger pattern matches
Detected(text) ==
    IF includes(text, "$") THEN text
    ELSE IF mathPattern(text) THEN Wrapped(text)
    ELSE text

\* C21: the math detector returns a fragment that contains "$" unchanged;
\* otherwise it wraps the whole fragment in single "$" exactly when a trigger
\* pattern matches ("x^2 + 1" becomes "$x^2 + 1$", "The capital is Paris"
\* stays); a second application gives the result of the first.
C21_DetectorContract ==
    /\ [](passes >= 1 =>
            /\ shown = Detected(fragment)
            /\ includes(fragment, "$") => shown = fragment
            /\ (~includes(fragment, "^") /\ ~includes(fragment, "\\")) =>
                   shown = fragment
            /\ fragment = PolynomialText =>
                   shown = <<"$", "x", "^", "2", " ", "+", " ", "1", "$">>
            /\ fragment = ParisText => shown = ParisText
            /\ fragment = <<"\\", "p", "i">> => shown = Wrapped(fragment)
            /\ fragment = <<"x", "^", " ">> => shown = fragment)
    /\ [][passes >= 1 => shown' = shown]_vars

\* the detector has run twice over "x^2 + 1" and the text is wrapped once
C21_Witness ==
    /\ passes = 2
    /\ fragment = PolynomialText
    /\ shown = Wrapped(PolynomialText)


\* the response to a request for question id is applied in this step
ResponseApplied(id) == inFlight'[id] < inFlight[id]

\* C22: with explanation requests for different questions in flight together,
\* the responses may be applied in any order: the step that applies one stores
\* an entry for its question and neither drops nor changes the stored
\* explanation of any other question.
C22_ResponsesKeepOthers ==
    [][/\ \A o \in DOMAIN explanations : o \in DOMAIN explanations'
       /\ \A id \in ResultIds : ResponseApplied(id) =>
             /\ id \in DOMAIN explanations'
             /\ \A o \in DOMAIN explanations \ {id} :
                   explanations'[o] = explanations[o]]_vars

\* the response for question a was applied while the request for question b
\* was in flight: b's request set loadingId, a's response cleared it
C22_Witness ==
    \E a, b \in ResultIds :
        /\ a # b
        /\ DOMAIN explanations = {a}
        /\ inFlight[a] = 0
        /\ inFlight[b] > 0
        /\ loadingId = null


\* the "Answered" figure of the header: Object.keys(selected).length
AnsweredCounter == Cardinality(DOMAIN selected)

\* the questions the indicator bar shows as answered
AnsweredByStatus ==
    {i \in QuestionIndices :
        circleClass(selected, marked, i) \in {"answered_only", "answered_and_marked"}}

\* C23: on the paginated page the "Answered" counter of the header equals the
\* number of questions whose status is answered_only or answered_and_marked,
\* also after every option of a multi-select question was deselected and
\* after a free-text answer was cleared to the empty string.
C23_CounterMatchesStatus ==
    variant = "paged" => AnsweredCounter = Cardinality(AnsweredByStatus)

\* the part of C23 that holds: a question shown as answered is counted, and
\* the counter differs only by the entries holding the empty string
C23_CounterCountsEmptyText ==
    variant = "paged" =>
        /\ AnsweredByStatus \subseteq DOMAIN selected
        /\ \A i \in DOMAIN selected \ AnsweredByStatus : selected[i] = StrVal(<<>>)


\* no entry of the list occurs at two positions
NoRepeats(l) == \A j, k \in 1..Len(l) : j # k => l[j] # l[k]

\* C24: the stored answer list of a multi-select question holds no option
\* twice, so its length, which the scorer compares with the number of
\* accepted answers, is the number of different options chosen.
C24_NoRepeatedOption ==
    \A i \in DOMAIN selected :
        selected[i].t = "arr" =>
            /\ NoRepeats(selected[i].v)
            /\ Len(selected[i].v) = Cardinality(AsSet(selected[i].v))
            /\ Len(selected[i].v) <= Len(questions[i + 1].options)

\* every option of a question with three options is in its stored list
C24_Witness ==
    \E i \in DOMAIN selected :
        /\ selected[i].t = "arr"
        /\ Len(selected[i].v) = 3
        /\ Len(questions[i + 1].options) = 3


\* C25: on the upload page at most one extraction request is in flight, the
\* loading flag is true exactly while a request is in flight, and every
\* started request brings the loading flag back to false, whether it yields
\* questions, raw text or throws.
C25_OneRequestLoadingTracks ==
    /\ [](uploadInFlight <= 1)
    /\ [](loading <=> uploadInFlight > 0)
    /\ [][(uploadResolved \/ uploadRejected) => ~loading']_vars
    /\ (loading ~> ~loading)

\* a request was started and threw: the error notice is up, loading is over
C25_Witness ==
    /\ route = "/"
    /\ error = AnalyzeErrorMessage
    /\ ~loading
    /\ uploadInFlight = 0


\* C26: advance, retreat and navigate leave the answers, the marks, the
\* elapsed seconds and the submitted flag as they are; selecting an option,
\* entering text and toggling the mark leave the current index, the elapsed
\* seconds and the submitted flag as they are; a tick changes the elapsed
\* seconds only.
C26_FrameConditions ==
    [][/\ (nextQuestion \/ prevQuestion \/ setCurrentQ) =>
             UNCHANGED <<selected, marked, timeElapsed, showAnswers>>
       /\ (handleSelect \/ handleTextChange \/ markForReview
             \/ List_handleSelect \/ List_handleTextChange) =>
             UNCHANGED <<currentQ, timeElapsed, showAnswers>>
       /\ tick =>
             /\ timeElapsed' = timeElapsed + 1
             /\ UNCHANGED <<questions, currentQ, selected, marked, showAnswers,
                            isTimerRunning>>]_vars

\* answers, a mark and elapsed time are in place on a later question
C26_Witness ==
    /\ variant = "paged"
    /\ ~showAnswers
    /\ currentQ > 0
    /\ DOMAIN selected # {}
    /\ \E i \in DOMAIN marked : marked[i]
    /\ timeElapsed > 0

====
